---- MODULE Spec2Model ----
(***************************************************************************)
(* Model of the Gemini manga OCR batch orchestrator and prompt builder     *)
(* (gemini_ocr.py, class GeminiMangaOCR) together with the configuration   *)
(* module it reads (config.py).                                            *)
(*                                                                         *)
(* Strings that the code inspects character by character (file names and   *)
(* extensions) are sequences of code points.  Strings that the code only   *)
(* compares for equality are TLA+ strings.  A prompt is the sequence of    *)
(* the text blocks that the code concatenates.                             *)
(***************************************************************************)
EXTENDS Integers, Sequences, FiniteSets, TLC

VARIABLES
    config,            \* the config module: attribute name -> value
    fs_case_sensitive, \* platform: does Path.glob match case-sensitively
    output_file,       \* content of config.OUTPUT_FILE on disk
    debug_files,       \* debug artifacts written under SCRIPT_DIR
    processed_count,   \* self.processed_count
    error_count,       \* self.error_count
    pc,                \* position of the single worker
    calls_left,        \* calls the driving script still makes
    listing,           \* the folder as the file system enumerates it
    image_files,       \* _process_images: image_files
    i,                 \* _process_images: loop index (1-based)
    all_text,          \* _process_images: all_text
    prompt,            \* extract_text_from_image: prompt
    response,          \* extract_text_from_image: response.text
    result,            \* what process_manga_folder gave its caller
    outcome,           \* history: how each attempted file ended
    requests,          \* history: generate_content calls issued in the batch
    sleeps,            \* history: time.sleep calls made in the batch
    save_attempts,     \* history: number of _save_results calls in the batch
    written,           \* history: the batch wrote its whole report
    output_before,     \* history: output_file when the batch started
    folder_exists,     \* history: os.path.exists(folder_path) of the last call
    processed_before,  \* history: processed_count when the last call started
    error_before,      \* history: error_count when the last call started
    attempted,         \* history: files handed to extract_text_from_image
    events,            \* history: what was done for the current file
    delays             \* history: the delays slept in the batch

vars == <<config, fs_case_sensitive, output_file, debug_files,
          processed_count, error_count, pc, calls_left, listing,
          image_files, i, all_text, prompt, response, result, outcome,
          requests, sleeps, save_attempts, written, output_before,
          folder_exists, processed_before, error_before, attempted, events,
          delays>>

-----------------------------------------------------------------------------
(* Bounds *)

MaxFiles == 3

-----------------------------------------------------------------------------
(* Strings as sequences of code points *)

ToLowerChar(c) == IF c >= 65 /\ c <= 90 THEN c + 32 ELSE c
ToUpperChar(c) == IF c >= 97 /\ c <= 122 THEN c - 32 ELSE c

\* str.lower()
Lower(s) == [k \in 1..Len(s) |-> ToLowerChar(s[k])]
\* str.upper()
Upper(s) == [k \in 1..Len(s) |-> ToUpperChar(s[k])]

\* str.endswith on code-point strings
EndsWith(s, suffix) ==
    /\ Len(suffix) <= Len(s)
    /\ \A k \in 1..Len(suffix) : s[Len(s) - Len(suffix) + k] = suffix[k]

MinOf(a, b) == IF a <= b THEN a ELSE b

\* Python's < on str: the first differing code point decides, a proper
\* prefix is smaller
StrLess(a, b) ==
    \E k \in 1..(MinOf(Len(a), Len(b)) + 1) :
        /\ \A j \in 1..(k - 1) : a[j] = b[j]
        /\ \/ k > Len(a) /\ k <= Len(b)
           \/ k <= Len(a) /\ k <= Len(b) /\ a[k] < b[k]

\* sorted(S) for a set of strings
RECURSIVE Sorted(_)
Sorted(S) ==
    IF S = {} THEN <<>>
    ELSE LET m == CHOOSE x \in S : \A y \in S \ {x} : StrLess(x, y)
         IN  <<m>> \o Sorted(S \ {m})

SeqToSet(s) == {s[k] : k \in 1..Len(s)}

\* file names that may be found in the folder
A_JPG   == <<97, 46, 106, 112, 103>>    \* "a.jpg"
B_PNG   == <<98, 46, 112, 110, 103>>    \* "b.png"
C_BMP   == <<99, 46, 98, 109, 112>>     \* "c.bmp"
B_PNG_U == <<66, 46, 80, 78, 71>>       \* "B.PNG"
E_JPG_M == <<101, 46, 74, 112, 103>>    \* "e.Jpg"
D_TXT   == <<100, 46, 116, 120, 116>>   \* "d.txt"

FileNames == {A_JPG, B_PNG, C_BMP, B_PNG_U, E_JPG_M, D_TXT}

EXT_JPG  == <<46, 106, 112, 103>>        \* ".jpg"
EXT_JPEG == <<46, 106, 112, 101, 103>>   \* ".jpeg"
EXT_PNG  == <<46, 112, 110, 103>>        \* ".png"
EXT_BMP  == <<46, 98, 109, 112>>         \* ".bmp"
EXT_TIFF == <<46, 116, 105, 102, 102>>   \* ".tiff"
EXT_WEBP == <<46, 119, 101, 98, 112>>    \* ".webp"

\* config.SUPPORTED_EXTENSIONS
SUPPORTED_EXTENSIONS ==
    <<EXT_JPG, EXT_JPEG, EXT_PNG, EXT_BMP, EXT_TIFF, EXT_WEBP>>

-----------------------------------------------------------------------------
(* The config module *)

\* getattr(config, name, default)
GetAttr(cfg, name, default) ==
    IF name \in DOMAIN cfg THEN cfg[name] ELSE default

\* hasattr(config, name)
HasAttr(cfg, name) == name \in DOMAIN cfg

\* the text of the template stored under a key of OCR_PROMPTS
Template(key) == <<"template", key>>

\* the literal 'Extract all text from this image.'
BuiltinPrompt == <<"builtin">>

\* config.OCR_PROMPTS as shipped
OCR_PROMPTS ==
    [k \in {"basic", "japanese", "english", "detailed", "structured",
            "manga_precise"} |-> Template(k)]

\* the values config.py assigns
ShippedConfig ==
    [ GOOGLE_API_KEY        |-> "key",
      GEMINI_MODEL          |-> "gemini-1.5-flash-latest",
      IMAGE_FOLDER          |-> "images",
      OUTPUT_FILE           |-> "extracted_manga_text.txt",
      SUPPORTED_EXTENSIONS  |-> SUPPORTED_EXTENSIONS,
      SAVE_PROCESSED_IMAGES |-> FALSE,
      SAVE_API_RESPONSES    |-> FALSE,
      REQUEST_DELAY         |-> 5,
      CONTINUE_ON_ERROR     |-> TRUE,
      OCR_PROMPTS           |-> OCR_PROMPTS,
      DEFAULT_PROMPT        |-> "detailed",
      MANGA_LANGUAGE        |-> "English",
      READING_ORDER         |-> "right-to-left",
      SEPARATE_PAGES        |-> TRUE,
      INCLUDE_FILENAME      |-> TRUE,
      ADD_PAGE_NUMBERS      |-> TRUE,
      INCLUDE_TIMESTAMP     |-> FALSE ]


-----------------------------------------------------------------------------
(* Prompt builder *)

\* dict.get(key, default)
DictGet(d, key, default) == IF key \in DOMAIN d THEN d[key] ELSE default

\* the empty dict {}
EmptyDict == [k \in {} |-> <<>>]

\* template keys a configuration may name or define
PromptKeys ==
    {"basic", "detailed", "chinese", "chinese_translate", "japanese",
     "custom_translate", "English"}

\* key.endswith('_translate'), tabulated over PromptKeys
EndsWith_translate(key) == key \in {"chinese_translate", "custom_translate"}

\* an empty string taken as it is
OrDefault_keeps_empty(x, default) == x

\* x or default, for strings
OrDefault(x, default) == IF x = "" THEN default ELSE x

\* the f-string that opens the translation instructions
TranslationHeader(source_lang, target_lang, style, preserve, mode) ==
    <<"translation", source_lang, target_lang, style,
      IF preserve THEN "Yes" ELSE "No", mode>>

\* the three fixed OUTPUT FORMAT sub-blocks
FormatInline   == <<"format", "Inline">>
FormatSeparate == <<"format", "Separate">>
FormatBoth     == <<"format", "Both">>

_get_translation_instructions(cfg) ==
    IF ~GetAttr(cfg, "ENABLE_TRANSLATION", FALSE) THEN <<>>
    ELSE
    LET source_lang == OrDefault(GetAttr(cfg, "SOURCE_LANGUAGE", "Chinese"), "Chinese")
        target_lang == OrDefault(GetAttr(cfg, "TARGET_LANGUAGE", "English"), "English")
        translation_mode == OrDefault(GetAttr(cfg, "TRANSLATION_MODE", "inline"), "inline")
        translation_style == OrDefault(GetAttr(cfg, "TRANSLATION_STYLE", "natural"), "natural")
        preserve_original == GetAttr(cfg, "PRESERVE_ORIGINAL", TRUE)
        instructions == <<TranslationHeader(source_lang, target_lang,
                            translation_style, preserve_original,
                            translation_mode)>>
    IN  IF translation_mode = "inline" THEN instructions \o <<FormatInline>>
        ELSE IF translation_mode = "separate" THEN instructions \o <<FormatSeparate>>
        ELSE IF translation_mode = "both" THEN instructions \o <<FormatBoth>>
        ELSE instructions

\* the fixed CRITICAL SPATIAL INSTRUCTIONS FOR MANGA block
SpatialInstructions == <<"spatial">>

\* the section labels and pairing patterns that a block of text contains.
\* The header of the translation instructions, the spatial block, the
\* built-in sentence and the templates shipped in config.py contain none.
Markers(block) ==
    IF block = FormatInline
        THEN {"[Original text] -> [Translation]"}
    ELSE IF block = FormatSeparate
        THEN {"ORIGINAL TEXT", "ENGLISH TRANSLATION"}
    ELSE IF block = FormatBoth
        THEN {"[Original] -> [Translation]", "ORIGINAL TEXT"}
    ELSE {}

\* the markers found anywhere in a prompt
PromptMarkers(p) == UNION {Markers(p[k]) : k \in 1..Len(p)}

\* a builder that falls back to the built-in sentence once the instance
\* has counted anything
SelectBase_counting(cfg) ==
    IF processed_count + error_count > 0 THEN BuiltinPrompt
    ELSE DictGet(GetAttr(cfg, "OCR_PROMPTS", EmptyDict),
                 GetAttr(cfg, "DEFAULT_PROMPT", "basic"), BuiltinPrompt)

\* a builder whose Chinese translation path yields to an explicitly
\* configured template
SelectBase_keeps_explicit(cfg) ==
    LET prompts == GetAttr(cfg, "OCR_PROMPTS", EmptyDict)
        default_prompt == GetAttr(cfg, "DEFAULT_PROMPT", "basic")
    IN  IF default_prompt # "basic" /\ default_prompt \in DOMAIN prompts
        THEN prompts[default_prompt]
        ELSE IF "chinese_translate" \in DOMAIN prompts
        THEN prompts["chinese_translate"]
        ELSE DictGet(prompts, "basic", BuiltinPrompt)

\* a builder that puts the Japanese template in place of whatever template
\* is configured
SelectBase_japanese_always(cfg) ==
    LET prompts == GetAttr(cfg, "OCR_PROMPTS", EmptyDict)
        default_prompt == GetAttr(cfg, "DEFAULT_PROMPT", "basic")
    IN  IF /\ GetAttr(cfg, "MANGA_LANGUAGE", "") = "Japanese"
           /\ "japanese" \in DOMAIN prompts
        THEN prompts["japanese"]
        ELSE DictGet(prompts, default_prompt,
                     DictGet(prompts, "basic", BuiltinPrompt))

\* the template chosen before any block is appended
SelectBase(cfg) ==
    LET prompts == GetAttr(cfg, "OCR_PROMPTS", EmptyDict)
        default_prompt == GetAttr(cfg, "DEFAULT_PROMPT", "basic")
        configured == DictGet(prompts, default_prompt,
                              DictGet(prompts, "basic", BuiltinPrompt))
        manga_language == GetAttr(cfg, "MANGA_LANGUAGE", "")
    IN  IF manga_language = "Chinese" THEN
            IF GetAttr(cfg, "ENABLE_TRANSLATION", FALSE) THEN
                IF "chinese_translate" \in DOMAIN prompts
                    THEN prompts["chinese_translate"]
                ELSE IF "chinese" \in DOMAIN prompts
                    THEN prompts["chinese"]
                ELSE configured
            ELSE IF default_prompt = "basic" /\ "chinese" \in DOMAIN prompts
                THEN prompts["chinese"]
            ELSE configured
        ELSE IF manga_language = "Japanese" /\ "japanese" \in DOMAIN prompts THEN
            IF default_prompt = "basic" THEN prompts["japanese"] ELSE configured
        ELSE configured

\* does _get_ocr_prompt append the translation instructions
AppendsTranslation(cfg) ==
    /\ GetAttr(cfg, "ENABLE_TRANSLATION", FALSE)
    /\ ~EndsWith_translate(GetAttr(cfg, "DEFAULT_PROMPT", "basic"))

\* a reading order that defaults to right-to-left when not configured
AppendsSpatial_by_default(cfg) ==
    GetAttr(cfg, "READING_ORDER", "right-to-left") = "right-to-left"

\* does _get_ocr_prompt append the spatial instructions
AppendsSpatial(cfg) == GetAttr(cfg, "READING_ORDER", "") = "right-to-left"

_get_ocr_prompt(cfg) ==
    LET base == <<SelectBase(cfg)>>
        translated == IF AppendsTranslation(cfg)
                      THEN base \o _get_translation_instructions(cfg)
                      ELSE base
    IN  IF AppendsSpatial(cfg)
        THEN translated \o <<SpatialInstructions>>
        ELSE translated

-----------------------------------------------------------------------------
(* File discovery *)

\* does a file name match the glob pattern "*" + case_ext on this platform
GlobMatch(name, case_ext, case_sensitive) ==
    IF case_sensitive THEN EndsWith(name, case_ext)
    ELSE EndsWith(Lower(name), Lower(case_ext))

\* folder.glob("*" + case_ext): the matches in enumeration order
Glob(dir, case_ext, case_sensitive) ==
    SelectSeq(dir, LAMBDA name : GlobMatch(name, case_ext, case_sensitive))

\* the list built by the two nested loops, before set() and sorted()
RECURSIVE GlobAll(_, _, _)
GlobAll(dir, exts, case_sensitive) ==
    IF exts = <<>> THEN <<>>
    ELSE Glob(dir, Lower(Head(exts)), case_sensitive)
         \o Glob(dir, Upper(Head(exts)), case_sensitive)
         \o GlobAll(dir, Tail(exts), case_sensitive)

\* the glob results returned as collected, neither deduplicated nor sorted
SortedUnique_as_collected(files) == files

\* sorted([str(f) for f in set(image_files)])
SortedUnique(files) == Sorted(SeqToSet(files))

\* get_image_files for a folder that exists.  Every path shares the folder
\* prefix, so paths are ordered as their file names are.
get_image_files(cfg, dir, case_sensitive) ==
    SortedUnique(GlobAll(dir,
                         GetAttr(cfg, "SUPPORTED_EXTENSIONS",
                                 <<EXT_JPG, EXT_JPEG, EXT_PNG, EXT_BMP, EXT_TIFF>>),
                         case_sensitive))

-----------------------------------------------------------------------------
(* Output formatting *)

\* a section that opens with the separator on every page, the first included
format_output_always_separated(cfg, filename, text, page_number) ==
    (IF GetAttr(cfg, "SEPARATE_PAGES", TRUE)
        THEN <<<<"separator">>>> ELSE <<>>)
    \o (IF GetAttr(cfg, "INCLUDE_FILENAME", TRUE)
        THEN <<<<"File", filename>>>> ELSE <<>>)
    \o (IF GetAttr(cfg, "ADD_PAGE_NUMBERS", TRUE)
        THEN <<<<"Page", page_number>>>> ELSE <<>>)
    \o (IF GetAttr(cfg, "INCLUDE_TIMESTAMP", FALSE)
        THEN <<<<"Processed">>>> ELSE <<>>)
    \o <<<<"divider">>, <<"text", text>>>>

\* format_output: the lines of one per-page section
format_output(cfg, filename, text, page_number) ==
    (IF GetAttr(cfg, "SEPARATE_PAGES", TRUE) /\ page_number > 1
        THEN <<<<"separator">>>> ELSE <<>>)
    \o (IF GetAttr(cfg, "INCLUDE_FILENAME", TRUE)
        THEN <<<<"File", filename>>>> ELSE <<>>)
    \o (IF GetAttr(cfg, "ADD_PAGE_NUMBERS", TRUE)
        THEN <<<<"Page", page_number>>>> ELSE <<>>)
    \o (IF GetAttr(cfg, "INCLUDE_TIMESTAMP", FALSE)
        THEN <<<<"Processed">>>> ELSE <<>>)
    \o <<<<"divider">>, <<"text", text>>>>

\* _create_output_header, without the generation time
_create_output_header(cfg, total_images, processed, errors) ==
    [ model      |-> cfg["GEMINI_MODEL"],
      total      |-> total_images,
      successful |-> processed,
      errors     |-> errors ]

\* what may be on disk at config.OUTPUT_FILE
AbsentFile    == [kind |-> "absent",    header |-> <<>>, body |-> <<>>]
PreviousFile  == [kind |-> "previous",  header |-> <<>>, body |-> <<>>]
TruncatedFile == [kind |-> "truncated", header |-> <<>>, body |-> <<>>]
ReportFile(header, body) ==
    [kind |-> "report", header |-> <<header>>, body |-> body]


-----------------------------------------------------------------------------
(* The batch run: main() constructs GeminiMangaOCR and calls               *)
(* process_manga_folder once                                               *)

\* folders the file system may present: no name twice, at most MaxFiles
\* names, and on a case-insensitive file system no two names that differ
\* in case only
Listings(case_sensitive) ==
    UNION { { l \in [1..n -> FileNames] :
                \A a, b \in 1..n :
                    a # b => /\ l[a] # l[b]
                             /\ case_sensitive \/ Lower(l[a]) # Lower(l[b]) }
            : n \in 0..MaxFiles }

\* what response.text may be: no text, or some text
Texts == {"", "x"}

\* os.path.basename: paths are modelled by their file names
basename(image_path) == image_path

\* what surrounds an instance before its first call: the platform, the
\* output path, and nothing processed yet
Blank ==
    /\ fs_case_sensitive \in BOOLEAN
    /\ output_file \in {AbsentFile, PreviousFile}
    /\ debug_files = {}
    /\ processed_count = 0
    /\ error_count = 0
    /\ listing = <<>>
    /\ image_files = <<>>
    /\ i = 0
    /\ all_text = <<>>
    /\ prompt = <<>>
    /\ response = ""
    /\ result = "none"
    /\ outcome = <<>>
    /\ requests = 0
    /\ sleeps = 0
    /\ save_attempts = 0
    /\ written = FALSE
    /\ output_before = output_file
    /\ folder_exists = TRUE
    /\ processed_before = 0
    /\ error_before = 0
    /\ attempted = <<>>
    /\ events = <<>>
    /\ delays = <<>>

\* GeminiMangaOCR(): the instance and its surroundings before any call
Constructed ==
    /\ \E coe \in BOOLEAN, sep \in BOOLEAN :
          config = [ShippedConfig EXCEPT !.CONTINUE_ON_ERROR = coe,
                                         !.SEPARATE_PAGES = sep]
    /\ pc = "idle"
    /\ Blank

\* main(): the instance is used for a single process_manga_folder call
Init ==
    /\ Constructed
    /\ calls_left = 1

\* a missing folder that makes the call raise
FolderNotFound_raises ==
    /\ listing' = <<>>
    /\ image_files' = <<>>
    /\ i' = 0
    /\ result' = "raised"
    /\ pc' = "raised"

\* process_manga_folder: "if not os.path.exists(folder_path): return False"
FolderNotFound ==
    /\ listing' = <<>>
    /\ image_files' = <<>>
    /\ i' = 0
    /\ result' = "False"
    /\ pc' = "returned"

\* process_manga_folder up to the call of _process_images
ProcessMangaFolder ==
    /\ pc \in {"idle", "returned", "raised"}
    /\ calls_left > 0
    /\ calls_left' = calls_left - 1
    /\ output_before' = output_file
    /\ outcome' = <<>>
    /\ all_text' = <<>>
    /\ prompt' = <<>>
    /\ response' = ""
    /\ processed_before' = processed_count
    /\ error_before' = error_count
    /\ attempted' = <<>>
    /\ events' = <<>>
    /\ delays' = <<>>
    /\ \E exists \in BOOLEAN :
          /\ folder_exists' = exists
          /\ IF ~exists
             THEN FolderNotFound
             ELSE \E dir \in Listings(fs_case_sensitive) :
                    /\ listing' = dir
                    /\ image_files' = get_image_files(config, dir, fs_case_sensitive)
                    /\ IF image_files' = <<>>
                       THEN /\ i' = 0
                            /\ result' = "False"
                            /\ pc' = "returned"
                       ELSE /\ i' = 1
                            /\ result' = "none"
                            /\ pc' = "preprocess"
    /\ requests' = 0
    /\ sleeps' = 0
    /\ save_attempts' = 0
    /\ written' = FALSE
    /\ UNCHANGED <<config, fs_case_sensitive, output_file, debug_files,
                   processed_count, error_count>>

\* a loop that stops one file short
LoopDone_early(index, files) == index >= Len(files)

\* the for loop of _process_images is exhausted
LoopDone(index, files) == index > Len(files)

\* the for loop of _process_images moves to the next file, or past the last
NextFile ==
    /\ i' = i + 1
    /\ pc' = IF LoopDone(i + 1, image_files) THEN "finalize" ELSE "preprocess"

\* the debug folder after _save_debug_image / _save_api_response: the
\* artifact is there when saving is enabled and the write went through
Stored(enabled, stored, artifact) ==
    IF enabled /\ stored THEN debug_files \cup {artifact} ELSE debug_files

\* the artifact _save_debug_image / _save_api_response may leave behind
DebugWrite(enabled, artifact) ==
    \E stored \in BOOLEAN : debug_files' = Stored(enabled, stored, artifact)

\* a response that is lost when its debug copy cannot be written
ReturnedText_lost(text, stored) == IF stored THEN text ELSE ""

\* extract_text_from_image: "return response.text" after
\* _save_api_response, which returns None and swallows its own exceptions
ReturnedText(text, stored) == text

\* extract_text_from_image: preprocess_image and the img is None test
PreprocessImage ==
    /\ pc = "preprocess"
    /\ attempted' = Append(attempted, image_files[i])
    /\ events' = <<"preprocess">>
    /\ \E opened \in BOOLEAN :
          IF opened
          THEN /\ DebugWrite(GetAttr(config, "SAVE_PROCESSED_IMAGES", FALSE),
                             <<"processed", image_files[i]>>)
               /\ pc' = "prompt"
               /\ UNCHANGED <<i, outcome>>
          ELSE /\ outcome' = Append(outcome, "preprocess_failed")
               /\ NextFile
               /\ UNCHANGED debug_files
    /\ UNCHANGED <<config, fs_case_sensitive, output_file, processed_count,
                   error_count, calls_left, listing, image_files, all_text,
                   prompt, response, result, requests, sleeps, save_attempts,
                   written, output_before,
                   folder_exists, processed_before, error_before, delays>>

\* extract_text_from_image: prompt = self._get_ocr_prompt()
BuildPrompt ==
    /\ pc = "prompt"
    /\ prompt' = _get_ocr_prompt(config)
    /\ events' = Append(events, "prompt")
    /\ pc' = "call"
    /\ UNCHANGED <<config, fs_case_sensitive, output_file, debug_files,
                   processed_count, error_count, calls_left, listing,
                   image_files, i, all_text, response, result, outcome,
                   requests, sleeps, save_attempts, written, output_before,
                   folder_exists, processed_before, error_before, attempted, delays>>

\* a handler that swallows the exception whatever the flag says
Reraises_never(cfg) == FALSE

\* a handler that re-raises whatever the flag says
Reraises_always(cfg) == TRUE

\* the except clause re-raises when continue_on_error is off
Reraises(cfg) == ~GetAttr(cfg, "CONTINUE_ON_ERROR", TRUE)

\* the except clause of extract_text_from_image
HandleException ==
    /\ error_count' = error_count + 1
    /\ outcome' = Append(outcome, "raised")
    /\ IF Reraises(config)
       THEN /\ pc' = "raised"
            /\ result' = "raised"
            /\ i' = i
       ELSE /\ NextFile
            /\ result' = result

\* extract_text_from_image: self.model.generate_content([prompt, img])
GenerateContent ==
    /\ pc = "call"
    /\ requests' = requests + 1
    /\ events' = Append(events, "call")
    /\ \E raised \in BOOLEAN :
          IF raised
          THEN /\ HandleException
               /\ response' = ""
          ELSE /\ response' \in Texts
               /\ pc' = "sleep"
               /\ UNCHANGED <<error_count, outcome, result, i>>
    /\ UNCHANGED <<config, fs_case_sensitive, output_file, debug_files,
                   processed_count, calls_left, listing, image_files,
                   all_text, prompt, sleeps, save_attempts, written,
                   output_before,
                   folder_exists, processed_before, error_before, attempted, delays>>

\* a delay that grows with the number of requests made
Delay_backoff(cfg, nth) == GetAttr(cfg, "REQUEST_DELAY", 10) * nth

\* delay = getattr(config, 'REQUEST_DELAY', 1.0), in tenths of a second,
\* for the nth sleep of the batch
Delay(cfg, nth) == GetAttr(cfg, "REQUEST_DELAY", 10)

\* extract_text_from_image: time.sleep(delay)
Sleep ==
    /\ pc = "sleep"
    /\ sleeps' = sleeps + 1
    /\ delays' = Append(delays, Delay(config, Len(delays) + 1))
    /\ events' = Append(events, "sleep")
    /\ pc' = "respond"
    /\ UNCHANGED <<config, fs_case_sensitive, output_file, debug_files,
                   processed_count, error_count, calls_left, listing,
                   image_files, i, all_text, prompt, response, result,
                   outcome, requests, save_attempts, written, output_before,
                   folder_exists, processed_before, error_before, attempted>>

\* a success counted twice
CountSuccess_twice(count) == count + 2

\* self.processed_count += 1
CountSuccess(count) == count + 1

\* pages numbered by the count of sections collected so far
PageNumber_sequential(index, collected) == Len(collected) + 1

\* the page number _process_images passes to format_output
PageNumber(index, collected) == index

\* extract_text_from_image from "if response.text" on, and the body of the
\* for loop of _process_images that follows its return
HandleResponse ==
    /\ pc = "respond"
    /\ IF response # ""
       THEN /\ processed_count' = CountSuccess(processed_count)
            /\ \E stored \in BOOLEAN :
                  /\ debug_files' =
                        Stored(GetAttr(config, "SAVE_API_RESPONSES", FALSE),
                               stored, <<"response", image_files[i]>>)
                  /\ all_text' =
                        Append(all_text,
                               format_output(config, basename(image_files[i]),
                                             ReturnedText(response, stored),
                                             PageNumber(i, all_text)))
            /\ outcome' = Append(outcome, "ok")
       ELSE /\ outcome' = Append(outcome, "empty")
            /\ UNCHANGED <<processed_count, debug_files, all_text>>
    /\ NextFile
    /\ UNCHANGED <<config, fs_case_sensitive, output_file, error_count,
                   calls_left, listing, image_files, prompt, response, result,
                   requests, sleeps, save_attempts, written, output_before,
                   folder_exists, processed_before, error_before, attempted, events, delays>>

\* a finalizer that saves whatever was collected
ShouldSave_always(collected) == TRUE

\* _finalize_processing decides to save when all_text is not empty
ShouldSave(collected) == collected # <<>>

\* a finalizer that ignores what _save_results returned
SaveResult_ignored(saved) == "True"

\* _finalize_processing: "if not self._save_results(...): return False",
\* else True
SaveResult(saved) == IF saved = "ok" THEN "True" ELSE "False"

\* _finalize_processing with _save_results
FinalizeProcessing ==
    /\ pc = "finalize"
    /\ pc' = "returned"
    /\ IF ~ShouldSave(all_text)
       THEN /\ result' = "False"
            /\ UNCHANGED <<output_file, save_attempts, written>>
       ELSE /\ save_attempts' = save_attempts + 1
            /\ \E saved \in {"ok", "open_failed", "write_failed"} :
                  /\ output_file' =
                        IF saved = "ok"
                        THEN ReportFile(_create_output_header(config,
                                            Len(image_files), processed_count,
                                            error_count),
                                        all_text)
                        ELSE IF saved = "open_failed" THEN output_file
                        ELSE TruncatedFile
                  /\ written' = (saved = "ok")
                  /\ result' = SaveResult(saved)
    /\ UNCHANGED <<config, fs_case_sensitive, debug_files, processed_count,
                   error_count, calls_left, listing, image_files, i, all_text,
                   prompt, response, outcome, requests, sleeps, output_before,
                   folder_exists, processed_before, error_before, attempted, events, delays>>

Next ==
    \/ ProcessMangaFolder
    \/ PreprocessImage
    \/ BuildPrompt
    \/ GenerateContent
    \/ Sleep
    \/ HandleResponse
    \/ FinalizeProcessing

Spec == Init /\ [][Next]_vars

\* one run of the script on a case-sensitive file system with no earlier
\* report, pages kept separate
FairInit ==
    /\ Init
    /\ fs_case_sensitive
    /\ output_file = AbsentFile
    /\ config.SEPARATE_PAGES

\* the interpreter runs the single thread on: whenever a step of the batch
\* can be taken, one eventually is
FairSpec == FairInit /\ [][Next]_vars /\ WF_vars(Next)

-----------------------------------------------------------------------------
(* One instance reused: run_example.py keeps a single GeminiMangaOCR and    *)
(* calls extract_text_from_image on one image, process_manga_folder on a   *)
(* folder that does not exist, and then process_manga_folder normally      *)

\* the image a script hands to extract_text_from_image
SingleImages == {A_JPG}

\* the ways one extraction can end
Endings == {"preprocess_failed", "raised", "empty", "ok"}

\* extract_text_from_image called directly on one image, start to return
ExtractTextFromImage ==
    /\ pc = "idle"
    /\ calls_left > 0
    /\ calls_left' = calls_left - 1
    /\ \E image_path \in SingleImages, how \in Endings :
          /\ attempted' = <<image_path>>
          /\ outcome' = <<how>>
          /\ events' = IF how = "preprocess_failed" THEN <<"preprocess">>
                       ELSE IF how = "raised"
                            THEN <<"preprocess", "prompt", "call">>
                            ELSE <<"preprocess", "prompt", "call", "sleep">>
          /\ prompt' = IF how = "preprocess_failed" THEN prompt
                       ELSE _get_ocr_prompt(config)
          /\ requests' = IF how = "preprocess_failed" THEN 0 ELSE 1
          /\ sleeps' = IF how \in {"empty", "ok"} THEN 1 ELSE 0
          /\ delays' = IF how \in {"empty", "ok"}
                       THEN <<Delay(config, 1)>> ELSE <<>>
          /\ response' = IF how = "ok" THEN "x" ELSE ""
          /\ error_count' = IF how = "raised" THEN error_count + 1
                            ELSE error_count
          /\ processed_count' = IF how = "ok"
                                THEN CountSuccess(processed_count)
                                ELSE processed_count
          /\ \E image_stored, response_stored \in BOOLEAN :
                debug_files' =
                    debug_files
                    \cup (IF /\ GetAttr(config, "SAVE_PROCESSED_IMAGES", FALSE)
                             /\ how # "preprocess_failed" /\ image_stored
                          THEN {<<"processed", image_path>>} ELSE {})
                    \cup (IF /\ GetAttr(config, "SAVE_API_RESPONSES", FALSE)
                             /\ how = "ok" /\ response_stored
                          THEN {<<"response", image_path>>} ELSE {})
          /\ IF how = "raised" /\ Reraises(config)
             THEN pc' = "raised" /\ result' = "raised"
             ELSE /\ pc' = "returned"
                  /\ result' = IF how = "ok" THEN "text" ELSE "None"
    /\ UNCHANGED <<config, fs_case_sensitive, output_file, listing,
                   image_files, i, all_text, save_attempts, written,
                   output_before, folder_exists, processed_before,
                   error_before>>

\* the instance of _get_ocr_instance before its first use, on a
\* case-sensitive file system with an earlier report on disk
ReuseInit ==
    /\ Constructed
    /\ fs_case_sensitive
    /\ output_file = PreviousFile
    /\ config.SEPARATE_PAGES
    /\ calls_left = 3

\* ocr.process_manga_folder(fake_folder)
MissingFolderCall ==
    /\ calls_left = 2
    /\ ProcessMangaFolder
    /\ ~folder_exists'

\* ocr.process_manga_folder() on the configured folder
NormalBatchCall ==
    /\ calls_left = 1
    /\ ProcessMangaFolder
    /\ folder_exists'

ReuseNext ==
    \/ ExtractTextFromImage
    \/ MissingFolderCall
    \/ NormalBatchCall
    \/ PreprocessImage
    \/ BuildPrompt
    \/ GenerateContent
    \/ Sleep
    \/ HandleResponse
    \/ FinalizeProcessing

ReuseSpec == ReuseInit /\ [][ReuseNext]_vars

-----------------------------------------------------------------------------
(* Construction: GeminiMangaOCR() under a config module that may lack       *)
(* required settings, followed by the batch run of main()                   *)

\* a list of required settings that leaves out the image folder
required_attrs_short == <<"GEMINI_MODEL", "OUTPUT_FILE", "SUPPORTED_EXTENSIONS">>

\* _validate_config: required_attrs
required_attrs ==
    <<"GEMINI_MODEL", "IMAGE_FOLDER", "OUTPUT_FILE", "SUPPORTED_EXTENSIONS">>

\* _validate_config: "ValueError" where it raises, "ok" where it returns
_validate_config(cfg) ==
    IF ~HasAttr(cfg, "GOOGLE_API_KEY") THEN "ValueError"
    ELSE IF cfg["GOOGLE_API_KEY"] = "" THEN "ValueError"
    ELSE IF \E k \in 1..Len(required_attrs) : ~HasAttr(cfg, required_attrs[k])
         THEN "ValueError"
    ELSE "ok"

\* a module-level check that does not look at DEFAULT_PROMPT
validate_config_lenient(cfg, folder_exists_now) ==
    IF \/ cfg["GOOGLE_API_KEY"] \in {"", "YOUR_GEMINI_API_KEY_HERE"}
       \/ ~folder_exists_now
    THEN "ValueError" ELSE "ok"

\* config.validate_config: "ValueError" where the list of errors is not
\* empty, "ok" otherwise
validate_config(cfg, folder_exists_now) ==
    IF \/ cfg["GOOGLE_API_KEY"] \in {"", "YOUR_GEMINI_API_KEY_HERE"}
       \/ ~folder_exists_now
       \/ cfg["DEFAULT_PROMPT"] \notin DOMAIN cfg["OCR_PROMPTS"]
    THEN "ValueError" ELSE "ok"

\* a config module with some attributes deleted
Without(cfg, names) == [k \in (DOMAIN cfg) \ names |-> cfg[k]]

\* config modules as a user may leave them: the key set, empty or deleted,
\* any of the other required settings deleted
ConstructConfigs ==
    { Without([ShippedConfig EXCEPT !.GOOGLE_API_KEY = key,
                                    !.CONTINUE_ON_ERROR = coe], missing) :
        key \in {"key", ""}, coe \in BOOLEAN,
        missing \in SUBSET {"GOOGLE_API_KEY", "GEMINI_MODEL", "IMAGE_FOLDER",
                            "OUTPUT_FILE", "SUPPORTED_EXTENSIONS"} }

\* GeminiMangaOCR.__init__: _validate_config, setup_logging, setup_gemini
\* (which turns any failure into ValueError), then the two counters
Construct ==
    /\ pc = "new"
    /\ IF _validate_config(config) = "ValueError"
       THEN /\ pc' = "config_error"
            /\ result' = "ValueError"
            /\ UNCHANGED <<processed_count, error_count>>
       ELSE \E initialized \in BOOLEAN :
               IF initialized
               THEN /\ pc' = "idle"
                    /\ result' = result
                    /\ processed_count' = 0
                    /\ error_count' = 0
               ELSE /\ pc' = "config_error"
                    /\ result' = "ValueError"
                    /\ UNCHANGED <<processed_count, error_count>>
    /\ UNCHANGED <<config, fs_case_sensitive, output_file, debug_files,
                   calls_left, listing, image_files, i, all_text, prompt,
                   response, outcome, requests, sleeps, save_attempts,
                   written, output_before, folder_exists, processed_before,
                   error_before, attempted, events, delays>>

ConstructInit ==
    /\ config \in ConstructConfigs
    /\ pc = "new"
    /\ calls_left = 1
    /\ Blank
    /\ fs_case_sensitive
    /\ output_file = AbsentFile

ConstructNext ==
    \/ Construct
    \/ Next

ConstructSpec == ConstructInit /\ [][ConstructNext]_vars

-----------------------------------------------------------------------------
(* Interruption: the user presses Ctrl-C while main() of gemini_ocr.py runs *)
(* its batch                                                                *)

\* the exception classes involved, each with its base classes
Bases ==
    [ KeyboardInterrupt |-> {"KeyboardInterrupt", "BaseException"},
      ValueError        |-> {"ValueError", "Exception", "BaseException"} ]

\* is an exception of class exc handled by one of the except clauses
Caught(exc, clauses) == \E k \in 1..Len(clauses) : clauses[k] \in Bases[exc]

\* the except clause of extract_text_from_image
extract_handlers == <<"Exception">>

\* the except clauses of main()
main_handlers == <<"ValueError", "Exception">>

\* the positions of a batch that is under way
InProgress == {"preprocess", "prompt", "call", "sleep", "respond", "finalize"}

\* KeyboardInterrupt raised at the current position of the batch.  In
\* _save_results it may strike before open() or after open() has truncated
\* the file; neither "except Exception" there nor the one in
\* extract_text_from_image applies to it.
KeyboardInterrupt ==
    /\ pc \in InProgress
    /\ pc' = "interrupted"
    /\ error_count' = IF /\ pc \in {"preprocess", "prompt", "call", "sleep",
                                      "respond"}
                          /\ Caught("KeyboardInterrupt", extract_handlers)
                       THEN error_count + 1 ELSE error_count
    /\ result' = IF Caught("KeyboardInterrupt", main_handlers)
                 THEN "reported" ELSE "uncaught"
    /\ \E opened \in BOOLEAN :
          IF opened /\ pc = "finalize" /\ ShouldSave(all_text)
          THEN /\ output_file' = TruncatedFile
               /\ save_attempts' = save_attempts + 1
          ELSE UNCHANGED <<output_file, save_attempts>>
    /\ UNCHANGED <<config, fs_case_sensitive, debug_files, processed_count,
                   calls_left, listing, image_files, i, all_text, prompt,
                   response, outcome, requests, sleeps, written,
                   output_before, folder_exists, processed_before,
                   error_before, attempted, events, delays>>

\* one run of the script, an earlier report on disk
InterruptInit ==
    /\ Init
    /\ fs_case_sensitive
    /\ output_file = PreviousFile
    /\ config.SEPARATE_PAGES

InterruptNext ==
    \/ KeyboardInterrupt
    \/ Next

InterruptSpec == InterruptInit /\ [][InterruptNext]_vars

-----------------------------------------------------------------------------
(* Debugging switched on: one run of the script with SAVE_PROCESSED_IMAGES  *)
(* and SAVE_API_RESPONSES set either way                                    *)

DebugInit ==
    /\ \E coe \in BOOLEAN, images \in BOOLEAN, responses \in BOOLEAN :
          config = [ShippedConfig EXCEPT !.CONTINUE_ON_ERROR = coe,
                                         !.SAVE_PROCESSED_IMAGES = images,
                                         !.SAVE_API_RESPONSES = responses]
    /\ pc = "idle"
    /\ calls_left = 1
    /\ Blank
    /\ fs_case_sensitive
    /\ output_file = AbsentFile

\* process_manga_folder on a folder that holds image files only and lists
\* them in sorted order
PlainFolderCall ==
    /\ ProcessMangaFolder
    /\ listing' = image_files'

DebugNext ==
    \/ PlainFolderCall
    \/ PreprocessImage
    \/ BuildPrompt
    \/ GenerateContent
    \/ Sleep
    \/ HandleResponse
    \/ FinalizeProcessing

DebugSpec == DebugInit /\ [][DebugNext]_vars


-----------------------------------------------------------------------------
(* The prompt builder on its own: a script assigns the prompt settings of  *)
(* the config module and the prompt is built under them                    *)

\* an attribute that is absent, or set to one of vals
Setting(name, vals) == {[k \in {} |-> ""]} \cup {name :> v : v \in vals}

\* template sets a configuration may define
PromptDicts ==
    { [k \in keys |-> Template(k)] :
        keys \in { {},
                   {"basic"},
                   {"basic", "detailed", "japanese"},
                   {"basic", "detailed", "chinese"},
                   {"basic", "chinese", "chinese_translate", "japanese"},
                   {"detailed", "chinese_translate", "custom_translate"},
                   DOMAIN OCR_PROMPTS } }

PromptInit ==
    /\ \E prompts \in Setting("OCR_PROMPTS", PromptDicts),
          default_prompt \in Setting("DEFAULT_PROMPT", PromptKeys),
          language \in Setting("MANGA_LANGUAGE", {"English", "Chinese", "Japanese"}),
          translation \in Setting("ENABLE_TRANSLATION", BOOLEAN),
          order \in Setting("READING_ORDER", {"right-to-left", "left-to-right"}),
          mode \in Setting("TRANSLATION_MODE", {"", "inline", "separate", "both", "none"}),
          style \in Setting("TRANSLATION_STYLE", {"", "literal"}),
          source \in Setting("SOURCE_LANGUAGE", {"Chinese"}),
          target \in Setting("TARGET_LANGUAGE", {"English"}) :
          config = prompts @@ default_prompt @@ language @@ translation
                   @@ order @@ mode @@ style @@ source @@ target
    /\ fs_case_sensitive = TRUE
    /\ output_file = AbsentFile
    /\ debug_files = {}
    /\ processed_count = 0
    /\ error_count = 0
    /\ pc = "configured"
    /\ calls_left = 0
    /\ listing = <<>>
    /\ image_files = <<>>
    /\ i = 0
    /\ all_text = <<>>
    /\ prompt = <<>>
    /\ response = ""
    /\ result = "none"
    /\ outcome = <<>>
    /\ requests = 0
    /\ sleeps = 0
    /\ save_attempts = 0
    /\ written = FALSE
    /\ output_before = output_file
    /\ folder_exists = TRUE
    /\ processed_before = 0
    /\ error_before = 0
    /\ attempted = <<>>
    /\ events = <<>>
    /\ delays = <<>>

\* a call of _get_ocr_prompt under the assigned settings
GetOcrPrompt ==
    /\ pc = "configured"
    /\ prompt' = _get_ocr_prompt(config)
    /\ pc' = "prompted"
    /\ UNCHANGED <<config, fs_case_sensitive, output_file, debug_files,
                   processed_count, error_count, calls_left, listing,
                   image_files, i, all_text, response, result, outcome,
                   requests, sleeps, save_attempts, written, output_before,
                   folder_exists, processed_before, error_before, attempted, events, delays>>

PromptNext == GetOcrPrompt

PromptSpec == PromptInit /\ [][PromptNext]_vars

\* the instance is put to use between two prompts: one of its counters moves
UseInstance ==
    /\ pc = "prompted"
    /\ pc' = "used"
    /\ \E counted \in {"processed", "error"} :
          /\ processed_count' = IF counted = "processed"
                                THEN CountSuccess(processed_count)
                                ELSE processed_count
          /\ error_count' = IF counted = "error" THEN error_count + 1
                            ELSE error_count
    /\ UNCHANGED <<config, fs_case_sensitive, output_file, debug_files,
                   calls_left, listing, image_files, i, all_text, prompt,
                   response, result, outcome, requests, sleeps,
                   save_attempts, written, output_before, folder_exists,
                   processed_before, error_before, attempted, events, delays>>

\* a second call of _get_ocr_prompt, under the same settings
GetOcrPromptAgain ==
    /\ pc = "used"
    /\ prompt' = _get_ocr_prompt(config)
    /\ pc' = "prompted_again"
    /\ UNCHANGED <<config, fs_case_sensitive, output_file, debug_files,
                   processed_count, error_count, calls_left, listing,
                   image_files, i, all_text, response, result, outcome,
                   requests, sleeps, save_attempts, written, output_before,
                   folder_exists, processed_before, error_before, attempted,
                   events, delays>>

RepeatNext ==
    \/ GetOcrPrompt
    \/ UseInstance
    \/ GetOcrPromptAgain

RepeatSpec == PromptInit /\ [][RepeatNext]_vars


-----------------------------------------------------------------------------
(* Reading the state *)

ContinueOnError == GetAttr(config, "CONTINUE_ON_ERROR", TRUE)

\* the files attempted so far that ended in a given way
Ended(how) == {k \in 1..Len(outcome) : outcome[k] = how}

\* the line of a per-page section that starts with a given tag
LineOf(section, tag) ==
    section[CHOOSE k \in 1..Len(section) : section[k][1] = tag]

SectionFile(section) == LineOf(section, "File")[2]
SectionPage(section) == LineOf(section, "Page")[2]

\* the lower-case and upper-case spellings of the supported extensions
CaseExtensions ==
    UNION { {Lower(SUPPORTED_EXTENSIONS[k]), Upper(SUPPORTED_EXTENSIONS[k])} :
            k \in 1..Len(SUPPORTED_EXTENSIONS) }

\* the same spellings as a case-insensitive platform compares them
LowerExtensions == {Lower(e) : e \in CaseExtensions}

ExtensionLengths == {Len(e) : e \in CaseExtensions}

\* the last n code points of a string, or nothing where it is shorter
Suffix(s, n) == IF Len(s) < n THEN <<>> ELSE SubSeq(s, Len(s) - n + 1, Len(s))

\* the files of the folder that file discovery matches on this platform: those
\* whose name ends in one of the glob patterns' extensions
Matched ==
    LET patterns == IF fs_case_sensitive THEN CaseExtensions
                    ELSE LowerExtensions
    IN  {f \in SeqToSet(listing) :
            LET name == IF fs_case_sensitive THEN f ELSE Lower(f)
            IN  \E n \in ExtensionLengths : Suffix(name, n) \in patterns}

\* 1-based position of a file among a set of files in sorted order
PositionAmong(files, f) == 1 + Cardinality({g \in files : StrLess(g, f)})

\* 1-based position of a file among the matched files in sorted order
SortedPosition(f) == PositionAmong(Matched, f)

\* the batch is over: process_manga_folder returned or raised
BatchOver == pc \in {"returned", "raised"}

-----------------------------------------------------------------------------
(* Claims *)

\* C1: with continue-on-error enabled, a batch of 3 matched files of which
\* only file 2 fails preprocessing returns success with exactly 2 page
\* sections and error_count = 1; in general each file that fails
\* preprocessing adds exactly 1 to error_count (stated over runs in which no
\* response was empty: then error_count is the number of preprocessing
\* failures plus the number of raised remote calls).
C1_PreprocessFailureCounted ==
    ContinueOnError =>
        /\ ( /\ pc = "returned"
             /\ written
             /\ outcome = <<"ok", "preprocess_failed", "ok">> )
           => /\ result = "True"
              /\ Len(output_file.body) = 2
              /\ error_count = 1
        /\ Ended("empty") = {}
           => error_count = Cardinality(Ended("preprocess_failed"))
                            + Cardinality(Ended("raised"))

\* C2: with CONTINUE_ON_ERROR false, any per-file failure (preprocessing
\* failure, empty response, raised remote call) aborts the batch: the error
\* propagates and no later file is attempted.
C2_AnyFailureAborts ==
    ~ContinueOnError =>
        \A k \in 1..Len(outcome) :
            outcome[k] # "ok" => /\ pc = "raised"
                                 /\ result = "raised"
                                 /\ Len(outcome) = k

\* C3: with CONTINUE_ON_ERROR false, once the remote call for file k has
\* raised, the exception has propagated out of process_manga_folder, file k
\* is the last file attempted, one request at most was issued per file up to
\* k, no report is written and no collected section is for file k or later.
C3_RaiseAbortsBatch ==
    ~ContinueOnError =>
        \A k \in Ended("raised") :
            /\ pc = "raised"
            /\ result = "raised"
            /\ i = k
            /\ Len(outcome) = k
            /\ requests <= k
            /\ save_attempts = 0
            /\ ~written
            /\ output_file = output_before
            /\ \A s \in 1..Len(all_text) : SectionPage(all_text[s]) < k

\* C3 witness: file 2 of 3 raised after file 1 had succeeded
C3_Witness ==
    /\ ~ContinueOnError
    /\ pc = "raised"
    /\ Len(image_files) = 3
    /\ outcome = <<"ok", "raised">>

\* C4: a remote call that returns with empty text makes the file be skipped
\* with no section, adds 1 to error_count and leaves processed_count alone.
C4_EmptyResponseCounted ==
    [][(pc = "respond" /\ response = "")
        => /\ all_text' = all_text
           /\ processed_count' = processed_count
           /\ error_count' = error_count + 1]_vars

\* C5: when a batch completes with continue-on-error enabled,
\* processed_count + error_count is the number of matched files.
C5_EverySkipCounted ==
    (ContinueOnError /\ pc = "returned" /\ Len(outcome) = Len(image_files))
        => processed_count + error_count = Len(image_files)

\* C6: during and after a batch on a fresh instance, processed_count +
\* error_count never exceeds the number of files attempted so far, which
\* never exceeds the number of matched files; each step raises at most one
\* of the two counters, by at most 1.
C6_CountersBounded ==
    /\ processed_count + error_count <= Len(outcome)
    /\ Len(outcome) <= Len(image_files)
    /\ processed_count = Cardinality(Ended("ok"))
    /\ error_count <= Cardinality(Ended("raised"))

\* C6 witness: a finished batch of 3 files, one success, one raised call
C6_Witness ==
    /\ pc = "returned"
    /\ Len(image_files) = 3
    /\ processed_count >= 1
    /\ error_count >= 1
    /\ processed_count + error_count = 3

\* C7 as stated: a batch run writes the report file if and only if at least
\* one file returned non-empty text; when none did, process_manga_folder
\* returns False and the output file is unchanged.
C7_Original ==
    BatchOver =>
        /\ written <=> (Ended("ok") # {})
        /\ Ended("ok") = {} => /\ result = "False"
                               /\ output_file = output_before

\* C7 amended: a batch run that was not aborted by a propagating error
\* attempts to write the report file if and only if at least one file
\* returned non-empty text, and the report is on disk only after such an
\* attempt; when none did, process_manga_folder returns False and the output
\* file is unchanged.  An aborted batch run attempts no write.
C7_ReportIffSomeText ==
    /\ pc = "returned" =>
          /\ (save_attempts > 0) <=> (Ended("ok") # {})
          /\ written => save_attempts > 0 /\ output_file.kind = "report"
          /\ Ended("ok") = {} => /\ result = "False"
                                 /\ output_file = output_before
    /\ pc = "raised" => /\ save_attempts = 0
                        /\ output_file = output_before

\* C7 witness: a completed batch in which one file gave text and another
\* gave none, and the report was written
C7_Witness ==
    /\ pc = "returned"
    /\ written
    /\ Ended("ok") # {}
    /\ Ended("empty") # {}

HasTranslationBlock(p) == \E k \in 1..Len(p) : p[k][1] = "translation"

\* the base template of a prompt is a translation-specific template
BaseIsTranslationTemplate(p) ==
    /\ p[1][1] = "template"
    /\ EndsWith_translate(p[1][2])

\* C10: _get_ocr_prompt appends the translation block if and only if
\* ENABLE_TRANSLATION is true and the base template actually selected is not
\* a translation-specific template.
C10_TranslationBlockIff ==
    pc = "prompted" =>
        ( HasTranslationBlock(prompt)
          <=> /\ GetAttr(config, "ENABLE_TRANSLATION", FALSE)
              /\ ~BaseIsTranslationTemplate(prompt) )


\* the templates the configuration defines are among those config.py ships,
\* whose text is known
TemplatesShipped ==
    DOMAIN GetAttr(config, "OCR_PROMPTS", EmptyDict) \subseteq DOMAIN OCR_PROMPTS

\* C11: with translation enabled, TRANSLATION_MODE 'separate',
\* SOURCE_LANGUAGE 'Chinese' and TARGET_LANGUAGE 'English', the prompt
\* contains the labels 'ORIGINAL TEXT' and 'ENGLISH TRANSLATION' and no
\* inline pairing marker, whatever DEFAULT_PROMPT and MANGA_LANGUAGE are.
C11_SeparateSections ==
    ( /\ pc = "prompted"
      /\ TemplatesShipped
      /\ GetAttr(config, "ENABLE_TRANSLATION", FALSE)
      /\ GetAttr(config, "TRANSLATION_MODE", "") = "separate"
      /\ GetAttr(config, "SOURCE_LANGUAGE", "") = "Chinese"
      /\ GetAttr(config, "TARGET_LANGUAGE", "") = "English" )
    => /\ "ORIGINAL TEXT" \in PromptMarkers(prompt)
       /\ "ENGLISH TRANSLATION" \in PromptMarkers(prompt)
       /\ "[Original text] -> [Translation]" \notin PromptMarkers(prompt)


\* the OUTPUT FORMAT sub-blocks of a prompt
FormatBlocks(p) == {k \in 1..Len(p) : p[k][1] = "format"}

\* the sub-block a translation mode selects
SelectedFormat(mode) ==
    IF mode = "separate" THEN FormatSeparate
    ELSE IF mode = "both" THEN FormatBoth
    ELSE FormatInline

\* C12 as stated: whenever the translation block is appended it contains
\* exactly one of the three OUTPUT FORMAT sub-blocks, the one TRANSLATION_MODE
\* selects, for every value TRANSLATION_MODE may hold (absent or empty
\* selects Inline).
C12_Original ==
    (pc = "prompted" /\ HasTranslationBlock(prompt))
    => /\ Cardinality(FormatBlocks(prompt)) = 1
       /\ \A k \in FormatBlocks(prompt) :
             prompt[k] = SelectedFormat(GetAttr(config, "TRANSLATION_MODE", ""))

\* C12 amended: whenever the translation block is appended and
\* TRANSLATION_MODE is 'inline', 'separate' or 'both', or is absent or empty
\* (which select Inline), the block contains exactly one OUTPUT FORMAT
\* sub-block, the one selected; for any other value of TRANSLATION_MODE it
\* contains none.
C12_OneFormatForKnownMode ==
    (pc = "prompted" /\ HasTranslationBlock(prompt))
    => LET mode == GetAttr(config, "TRANSLATION_MODE", "")
       IN  IF mode \in {"", "inline", "separate", "both"}
           THEN /\ Cardinality(FormatBlocks(prompt)) = 1
                /\ \A k \in FormatBlocks(prompt) :
                      prompt[k] = SelectedFormat(mode)
           ELSE FormatBlocks(prompt) = {}

\* C12 witness: the translation block appended under an empty
\* TRANSLATION_MODE, with the Inline sub-block
C12_Witness ==
    /\ pc = "prompted"
    /\ HasTranslationBlock(prompt)
    /\ HasAttr(config, "TRANSLATION_MODE")
    /\ config["TRANSLATION_MODE"] = ""
    /\ \E k \in FormatBlocks(prompt) : prompt[k] = FormatInline

\* C13: the prompt ends with the CRITICAL SPATIAL INSTRUCTIONS block if and
\* only if READING_ORDER is 'right-to-left' (absent or any other value: no
\* such block anywhere in the prompt), whatever the other settings are.
C13_SpatialIffRightToLeft ==
    pc = "prompted" =>
        LET rtl == /\ HasAttr(config, "READING_ORDER")
                   /\ config["READING_ORDER"] = "right-to-left"
            at  == {k \in 1..Len(prompt) : prompt[k] = SpatialInstructions}
        IN  /\ rtl => at = {Len(prompt)}
            /\ ~rtl => at = {}

\* C13 witness: the translation block appended, reading order
\* right-to-left, and the spatial block closes the prompt
C13_Witness ==
    /\ pc = "prompted"
    /\ GetAttr(config, "ENABLE_TRANSLATION", FALSE)
    /\ GetAttr(config, "READING_ORDER", "") = "right-to-left"
    /\ Len(prompt) >= 3
    /\ prompt[Len(prompt)] = SpatialInstructions


\* C14: with CONTINUE_ON_ERROR true a batch run terminates, having handed
\* every matched file to extract_text_from_image exactly once and in sorted
\* order: whatever way a file fails, it is not retried and the next one is
\* attempted.
C14_EveryFileAttemptedOnce ==
    /\ [](ContinueOnError =>
            /\ Len(attempted) <= Len(image_files)
            /\ \A k \in 1..Len(attempted) : attempted[k] = image_files[k]
            /\ \A s, t \in 1..Len(attempted) :
                  s < t => StrLess(attempted[s], attempted[t])
            /\ pc = "returned" => attempted = image_files)
    /\ (ContinueOnError => <>(pc = "returned"))

\* C14 witness: a finished batch whose three files failed in the three ways
C14_Witness ==
    /\ ContinueOnError
    /\ pc = "returned"
    /\ outcome = <<"preprocess_failed", "raised", "empty">>
    /\ attempted = image_files


\* the steps extract_text_from_image takes on one file, in program order
EventOrder == <<"preprocess", "prompt", "call", "sleep">>

IsPrefix(s, t) == Len(s) <= Len(t) /\ \A k \in 1..Len(s) : s[k] = t[k]

\* C15: the steps taken on a file are an initial part of preprocess, build
\* prompt, remote call, sleep, as far as the position in the code says; a
\* request is issued only for a file handed to extraction and only when every
\* earlier request has raised or has been followed by its sleep, so at most
\* one is outstanding; every sleep lasts the configured REQUEST_DELAY.
C15_OrderedStepsFixedDelay ==
    /\ IsPrefix(events, EventOrder)
    /\ pc = "prompt" => Len(events) = 1
    /\ pc = "call" => Len(events) = 2
    /\ pc = "sleep" => Len(events) = 3
    /\ pc = "respond" => Len(events) = 4
    /\ requests <= Len(attempted)
    /\ requests - sleeps - Cardinality(Ended("raised")) =
          IF pc = "sleep" THEN 1 ELSE 0
    /\ Len(delays) = sleeps
    /\ \A k \in 1..Len(delays) :
          delays[k] = GetAttr(config, "REQUEST_DELAY", 10)

\* C15 witness: a finished batch of three files whose three requests all
\* returned and were each followed by a sleep
C15_Witness ==
    /\ pc = "returned"
    /\ requests = 3
    /\ Len(delays) = 3
    /\ events = EventOrder


\* the files of the folder whose extension, lower-cased, is a supported one
CaseInsensitiveMatches ==
    {f \in SeqToSet(listing) :
        \E k \in 1..Len(SUPPORTED_EXTENSIONS) :
            EndsWith(Lower(f), Lower(SUPPORTED_EXTENSIONS[k]))}

\* C16: the files get_image_files returns for an existing folder are exactly
\* the files of the folder whose extension, compared case-insensitively, is
\* in SUPPORTED_EXTENSIONS, mixed-case extensions such as ".Jpg" included.
C16_CaseInsensitiveExtensions ==
    (pc # "idle" /\ folder_exists) =>
        SeqToSet(image_files) = CaseInsensitiveMatches


\* C18: a batch opens the output file for writing at most once, and only
\* after every matched file has been attempted and the call is returning; no
\* earlier step touches the file, so while the batch runs, and after it has
\* aborted on a re-raised exception, the file is as it was before the batch.
C18_ReportOnlyAtEnd ==
    /\ save_attempts <= 1
    /\ save_attempts = 1 =>
          /\ pc = "returned"
          /\ attempted = image_files
          /\ Len(outcome) = Len(image_files)
    /\ output_file # output_before => save_attempts = 1
    /\ pc # "returned" => output_file = output_before

\* C18 witness: a batch that collected a page and then aborted on its
\* second file of three, with the earlier report still in place
C18_Witness ==
    /\ pc = "raised"
    /\ Len(image_files) = 3
    /\ outcome = <<"ok", "raised">>
    /\ all_text # <<>>
    /\ output_before = PreviousFile
    /\ output_file = PreviousFile

\* C19: when the attempt to write the output file fails, process_manga_folder
\* returns False, whatever was extracted, and does not raise.
C19_WriteFailureReturnsFalse ==
    (save_attempts > 0 /\ ~written) =>
        /\ pc = "returned"
        /\ result = "False"

\* C19 witness: all three files were extracted, the write failed, the call
\* returned False
C19_Witness ==
    /\ pc = "returned"
    /\ outcome = <<"ok", "ok", "ok">>
    /\ processed_count = 3
    /\ save_attempts = 1
    /\ ~written
    /\ result = "False"


\* C17: the header of every report written says: total = the number of
\* matched files of the batch, successful = the number of per-page sections
\* in the report, errors = the number of files of this batch whose
\* extraction raised; also when the instance was used before the batch.
C17_HeaderCountsThisBatch ==
    written =>
        LET header == output_file.header[1] IN
            /\ header.total = Len(image_files)
            /\ header.successful = Len(output_file.body)
            /\ header.errors = Cardinality(Ended("raised"))

\* C20: process_manga_folder on a folder that does not exist returns False
\* without raising, having attempted no file, issued no request and written
\* no report, and with both counters as they were before the call; a normal
\* process_manga_folder call on the same instance can follow.
C20_MissingFolderReturnsFalse ==
    (pc # "idle" /\ ~folder_exists) =>
        /\ pc = "returned"
        /\ result = "False"
        /\ attempted = <<>>
        /\ outcome = <<>>
        /\ requests = 0
        /\ save_attempts = 0
        /\ output_file = output_before
        /\ processed_count = processed_before
        /\ error_count = error_before
        /\ ENABLED NormalBatchCall

\* C20 witness: the instance had extracted one image before, the call on the
\* missing folder has returned False and the count of 1 is still there
C20_Witness ==
    /\ pc = "returned"
    /\ ~folder_exists
    /\ result = "False"
    /\ calls_left = 1
    /\ processed_count = 1
    /\ processed_before = 1


\* a configuration the constructor must refuse: the key absent or empty, or
\* one of the four other required settings absent
ConfigInvalid ==
    \/ ~HasAttr(config, "GOOGLE_API_KEY")
    \/ GetAttr(config, "GOOGLE_API_KEY", "") = ""
    \/ \E name \in {"GEMINI_MODEL", "IMAGE_FOLDER", "OUTPUT_FILE",
                     "SUPPORTED_EXTENSIONS"} : ~HasAttr(config, name)

\* C21: under a configuration whose key is absent or empty, or that lacks
\* GEMINI_MODEL, IMAGE_FOLDER, OUTPUT_FILE or SUPPORTED_EXTENSIONS, the
\* constructor ends in ValueError and no instance comes to exist: no folder
\* is listed, no file attempted, no request sent, no batch call made.
C21_InvalidConfigNeverRuns ==
    ConfigInvalid =>
        /\ pc \in {"new", "config_error"}
        /\ pc = "config_error" => result = "ValueError"
        /\ calls_left = 1
        /\ listing = <<>>
        /\ attempted = <<>>
        /\ requests = 0
        /\ save_attempts = 0

\* C21 witness: the key is set but IMAGE_FOLDER is missing, and the
\* constructor has raised
C21_Witness ==
    /\ pc = "config_error"
    /\ result = "ValueError"
    /\ GetAttr(config, "GOOGLE_API_KEY", "") = "key"
    /\ ~HasAttr(config, "IMAGE_FOLDER")
    /\ HasAttr(config, "GEMINI_MODEL")


\* C23: once KeyboardInterrupt has struck a batch under way, the entry point
\* has caught and reported it, the batch stays where it was (no further file
\* attempted), and the output file is as it was before the batch.
C23_InterruptCaughtAndReported ==
    pc = "interrupted" =>
        /\ result = "reported"
        /\ ~ENABLED InterruptNext
        /\ ~written
        /\ output_file = output_before


\* the position in image_files of the k-th file whose extraction succeeded
OkIndex(k) ==
    CHOOSE j \in Ended("ok") :
        Cardinality({m \in Ended("ok") : m <= j}) = k

\* C22: whatever SAVE_PROCESSED_IMAGES and SAVE_API_RESPONSES are set to and
\* whether or not the debug writes go through, the counters, the sections
\* with the text returned for each file, the report and the result of the
\* batch are those fixed by how the files themselves fared.
C22_DebugArtifactsChangeNothing ==
    /\ processed_count = Cardinality(Ended("ok"))
    /\ error_count = Cardinality(Ended("raised"))
    /\ Len(all_text) = Cardinality(Ended("ok"))
    /\ \A k \in 1..Len(all_text) :
          all_text[k] = format_output(config, basename(image_files[OkIndex(k)]),
                                      "x", OkIndex(k))
    /\ written => output_file.body = all_text
    /\ pc = "returned" =>
          result = IF written THEN "True" ELSE "False"
    /\ (pc = "returned" /\ all_text = <<>>) => save_attempts = 0

\* C22 witness: both switches on, two files extracted, none of the debug
\* writes went through, and the batch succeeded with both pages
C22_Witness ==
    /\ GetAttr(config, "SAVE_PROCESSED_IMAGES", FALSE)
    /\ GetAttr(config, "SAVE_API_RESPONSES", FALSE)
    /\ pc = "returned"
    /\ outcome = <<"ok", "ok">>
    /\ debug_files = {}
    /\ result = "True"
    /\ processed_count = 2
    /\ error_count = 0


\* the translation instructions header of a prompt
TranslationBlock(p) == p[CHOOSE k \in 1..Len(p) : p[k][1] = "translation"]

\* the basic extraction prompt of a configuration: OCR_PROMPTS['basic'], or
\* the built-in sentence where that is not defined
BasicPrompt ==
    DictGet(GetAttr(config, "OCR_PROMPTS", EmptyDict), "basic", BuiltinPrompt)

\* is an optional setting absent, or present and empty
AbsentOrEmpty(name) == ~HasAttr(config, name) \/ GetAttr(config, name, "") = ""

\* the defaults for the translation settings: an absent ENABLE_TRANSLATION
\* means no translation block, an absent or empty style reads 'natural', an
\* absent or empty mode reads 'inline' with the Inline sub-block
TranslationDefaults ==
    /\ Len(prompt) >= 1
    /\ prompt[1] = BuiltinPrompt \/ prompt[1][1] = "template"
    /\ ~HasAttr(config, "ENABLE_TRANSLATION") => ~HasTranslationBlock(prompt)
    /\ HasTranslationBlock(prompt) =>
          /\ AbsentOrEmpty("TRANSLATION_STYLE") =>
                TranslationBlock(prompt)[4] = "natural"
          /\ AbsentOrEmpty("TRANSLATION_MODE") =>
                /\ TranslationBlock(prompt)[6] = "inline"
                /\ \E k \in 1..Len(prompt) : prompt[k] = FormatInline
    /\ ~HasAttr(config, "OCR_PROMPTS") => prompt[1] = BuiltinPrompt

BlocksOf(p, kind) == {k \in 1..Len(p) : p[k][1] = kind}

Prompts == GetAttr(config, "OCR_PROMPTS", EmptyDict)
DefaultKey == GetAttr(config, "DEFAULT_PROMPT", "basic")

\* what DEFAULT_PROMPT selects by itself: the template under that key, or
\* the basic extraction prompt when the key is not defined
ConfiguredTemplate == DictGet(Prompts, DefaultKey, BasicPrompt)

\* C26: with MANGA_LANGUAGE 'Chinese' and translation enabled the base is
\* OCR_PROMPTS['chinese_translate'] if defined, else OCR_PROMPTS['chinese'] if
\* defined, else what DEFAULT_PROMPT selects, whatever DEFAULT_PROMPT names.
C26_ChineseTranslationBase ==
    ( /\ pc = "prompted"
      /\ GetAttr(config, "MANGA_LANGUAGE", "") = "Chinese"
      /\ GetAttr(config, "ENABLE_TRANSLATION", FALSE) )
    => prompt[1] = IF "chinese_translate" \in DOMAIN Prompts
                       THEN Template("chinese_translate")
                   ELSE IF "chinese" \in DOMAIN Prompts
                       THEN Template("chinese")
                   ELSE ConfiguredTemplate

\* C26 witness: DEFAULT_PROMPT names the defined template 'detailed', and
\* the base is the Chinese translation template all the same
C26_Witness ==
    /\ pc = "prompted"
    /\ GetAttr(config, "MANGA_LANGUAGE", "") = "Chinese"
    /\ GetAttr(config, "ENABLE_TRANSLATION", FALSE)
    /\ DefaultKey = "detailed"
    /\ "detailed" \in DOMAIN Prompts
    /\ prompt[1] = Template("chinese_translate")


\* the keys under which OCR_PROMPTS may hold a template for a language
LanguageKeys(language) ==
    IF language = "Chinese" THEN {"chinese", "chinese_translate"}
    ELSE IF language = "Japanese" THEN {"japanese"}
    ELSE IF language = "English" THEN {"english"}
    ELSE {}

\* C27: when DEFAULT_PROMPT is 'basic' and OCR_PROMPTS holds no template for
\* the configured MANGA_LANGUAGE, the base of the prompt is
\* OCR_PROMPTS['detailed'].
C27_FallsBackToDetailed ==
    ( /\ pc = "prompted"
      /\ HasAttr(config, "DEFAULT_PROMPT")
      /\ DefaultKey = "basic"
      /\ HasAttr(config, "MANGA_LANGUAGE")
      /\ LanguageKeys(config["MANGA_LANGUAGE"]) \cap DOMAIN Prompts = {}
      /\ "detailed" \in DOMAIN Prompts )
    => prompt[1] = Template("detailed")


\* C28: with translation disabled, the base is OCR_PROMPTS['japanese'] for
\* MANGA_LANGUAGE 'Japanese', or OCR_PROMPTS['chinese'] for 'Chinese', exactly
\* when DEFAULT_PROMPT is 'basic' (an absent DEFAULT_PROMPT reads 'basic') and
\* that template is defined; in every other case it is what DEFAULT_PROMPT
\* selects, so a non-basic template that is configured and defined is the base.
C28_LanguageReplacesBasicOnly ==
    (pc = "prompted" /\ ~GetAttr(config, "ENABLE_TRANSLATION", FALSE))
    => LET language == GetAttr(config, "MANGA_LANGUAGE", "")
           key == IF language = "Japanese" THEN "japanese" ELSE "chinese"
       IN  /\ prompt[1] =
                 IF /\ language \in {"Japanese", "Chinese"}
                    /\ DefaultKey = "basic"
                    /\ key \in DOMAIN Prompts
                 THEN Template(key)
                 ELSE ConfiguredTemplate
           /\ (DefaultKey # "basic" /\ DefaultKey \in DOMAIN Prompts)
                 => prompt[1] = Template(DefaultKey)

\* C28 witness: MANGA_LANGUAGE 'Japanese' with a Japanese template defined,
\* DEFAULT_PROMPT 'detailed', translation off: the base is 'detailed'
C28_Witness ==
    /\ pc = "prompted"
    /\ ~GetAttr(config, "ENABLE_TRANSLATION", FALSE)
    /\ GetAttr(config, "MANGA_LANGUAGE", "") = "Japanese"
    /\ "japanese" \in DOMAIN Prompts
    /\ HasAttr(config, "DEFAULT_PROMPT")
    /\ DefaultKey = "detailed"
    /\ prompt[1] = Template("detailed")


\* the config module as a whole: the prompt settings assigned by the script,
\* every other setting as shipped
WholeConfig == config @@ ShippedConfig

\* does one of the language branches of _get_ocr_prompt replace the base
LanguageOverride ==
    LET language == GetAttr(config, "MANGA_LANGUAGE", "")
    IN  \/ /\ language = "Chinese"
           /\ GetAttr(config, "ENABLE_TRANSLATION", FALSE)
           /\ {"chinese", "chinese_translate"} \cap DOMAIN Prompts # {}
        \/ /\ language = "Chinese"
           /\ DefaultKey = "basic"
           /\ "chinese" \in DOMAIN Prompts
        \/ /\ language = "Japanese"
           /\ DefaultKey = "basic"
           /\ "japanese" \in DOMAIN Prompts

\* C29: when DEFAULT_PROMPT names a key that OCR_PROMPTS does not define and
\* no language branch replaces the base, the base is OCR_PROMPTS['basic'], or
\* the built-in sentence where 'basic' is undefined too; _validate_config of
\* the constructor passes such a configuration and config.validate_config
\* raises ValueError on it, whether or not the image folder exists.
C29_UndefinedKeyFallsBackToBasic ==
    ( /\ pc = "prompted"
      /\ HasAttr(config, "DEFAULT_PROMPT")
      /\ HasAttr(config, "OCR_PROMPTS")
      /\ DefaultKey \notin DOMAIN Prompts
      /\ ~LanguageOverride )
    => /\ prompt[1] = IF "basic" \in DOMAIN Prompts THEN Template("basic")
                      ELSE BuiltinPrompt
       /\ _validate_config(WholeConfig) = "ok"
       /\ \A exists \in BOOLEAN :
             validate_config(WholeConfig, exists) = "ValueError"

\* C29 witness: DEFAULT_PROMPT is 'English' as config_template.py sets it,
\* the shipped templates are defined, and the base is the basic template
C29_Witness ==
    /\ pc = "prompted"
    /\ HasAttr(config, "DEFAULT_PROMPT")
    /\ DefaultKey = "English"
    /\ DOMAIN Prompts = DOMAIN OCR_PROMPTS
    /\ GetAttr(config, "MANGA_LANGUAGE", "") = "English"
    /\ prompt[1] = Template("basic")
    /\ validate_config(WholeConfig, TRUE) = "ValueError"


\* does a section open with the page separator line
StartsWithSeparator(section) == section[1] = <<"separator">>

\* the separator rule for a sequence of sections: a section opens with the
\* separator exactly when SEPARATE_PAGES is on and its page number is
\* greater than 1
SeparatorByPage(sections) ==
    \A s \in 1..Len(sections) :
        StartsWithSeparator(sections[s])
        <=> /\ GetAttr(config, "SEPARATE_PAGES", TRUE)
            /\ SectionPage(sections[s]) > 1

\* C30: in the sections collected and in every report written, a section
\* opens with the separator exactly when SEPARATE_PAGES is enabled and its
\* page number is greater than 1; so where the first matched file yielded no
\* section, the first section of the report opens with the separator.
C30_SeparatorFollowsPageNumber ==
    /\ SeparatorByPage(all_text)
    /\ written => SeparatorByPage(output_file.body)
    /\ ( /\ written
         /\ GetAttr(config, "SEPARATE_PAGES", TRUE)
         /\ outcome[1] # "ok" )
       => StartsWithSeparator(output_file.body[1])

\* C30 witness: the first of three files was skipped, the other two were
\* extracted, and the report written opens with a separator line
C30_Witness ==
    /\ written
    /\ GetAttr(config, "SEPARATE_PAGES", TRUE)
    /\ outcome = <<"empty", "ok", "ok">>
    /\ Len(output_file.body) = 2
    /\ StartsWithSeparator(output_file.body[1])
    /\ SectionPage(output_file.body[1]) = 2

====
